---- MODULE Spec2Model ----
(***************************************************************************)
(* go-metro: passive TCP round-trip-time measurement.                      *)
(*                                                                         *)
(* The model follows src/ddsniff.go (DatadogSniffer.handlePacket, the      *)
(* packet dispatcher) and src/reporter.go (Client.Report, the reporting    *)
(* loop).  The flow table (FlowMap) and the flow record (TCPAccounting)    *)
(* are used by both files but defined in neither; their operations are     *)
(* modelled from the design document and marked so in the map.             *)
(*                                                                         *)
(* One TCP connection between the endpoints "A" and "B" is observed.  An   *)
(* endpoint stands for an address together with its port: the code builds  *)
(* the key of a flow as JoinHostPort(ip, port) of one end, "-", and the    *)
(* same of the other, which the model keeps as the pair <<src, dst>>.      *)
(*                                                                         *)
(* Time is counted in seconds by the timers (Tick); a timer holds the      *)
(* seconds left until it fires.  Capture timestamps (ci.Timestamp) are an  *)
(* input of each packet, in nanoseconds, independent of the timers' clock  *)
(* as they are for a capture file.                                         *)
(***************************************************************************)
EXTENDS Integers, Sequences, FiniteSets, TLC

VARIABLES
    hostIPs,    \* d.hostIPs: the addresses of the monitored host
    IdleTTL,    \* d.IdleTTL (seconds)
    ExpTTL,     \* d.ExpTTL (seconds)
    Map,        \* d.flows.Map: flow key -> record
    Expire,     \* d.flows.Expire: the channel of expired keys
    tableLock,  \* holder of the FlowMap's lock, or "none"
    recs,       \* every TCPAccounting made so far, by its number
    pc,         \* where each dispatcher stands in handlePacket
    pkt,        \* the decoded packet a dispatcher is handling
    flow,       \* the record (its number) a dispatcher works on
    rpc,        \* where the reporting loop stands in Report
    scanTodo,   \* keys the running scan has not visited yet
    scanKey,    \* the key the running scan is at
    budget,     \* packets the capture has still to deliver
    quiet,      \* history: for each record, the seconds since the
                \* dispatcher last observed a packet of it
    mode,       \* "live" (an interface) or "offline" (a capture file)
    dying,      \* for each tomb (d.t, r.t), whether it was killed
    doneSniffing, \* whether the capture loop logged "Done sniffing."
    ret         \* what each dispatcher's last handlePacket returned

vars == <<hostIPs, IdleTTL, ExpTTL, Map, Expire, tableLock, recs, pc, pkt,
          flow, rpc, scanTodo, scanKey, budget, quiet, mode, dying,
          doneSniffing, ret>>

cfgVars == <<hostIPs, IdleTTL, ExpTTL, mode>>
runVars == <<dying, doneSniffing, ret>>
dispVars == <<pc, pkt, flow, budget>>
repVars == <<rpc, scanTodo, scanKey>>

----------------------------------------------------------------------------
(* Bounds of the model *)

\* packets delivered in one behaviour
MaxPackets == 3
\* packets delivered in one behaviour of SpecLive
MaxLivePackets == 2
\* packets delivered in one behaviour of SpecPaths
MaxPathPackets == 3
\* capacity of the Expire channel
ExpireCap == 2

----------------------------------------------------------------------------
(* Inputs *)

Endpoints == {"A", "B"}
Sniffer == "sniffer"
Dispatchers == {Sniffer, "second"}
Reporter == "reporter"
Peer(e) == IF e = "A" THEN "B" ELSE "A"

\* TCP option kind 8 is the timestamp option; kind 1 is a no-op
TSOption(v, e) == [OptionType |-> 8, TSval |-> v, TSecr |-> e]
NopOption == [OptionType |-> 1, TSval |-> 0, TSecr |-> 0]

\* the 64-bit unsigned word of the RTT arithmetic, which TLC's integers
\* cannot hold, is scaled to 16 bits
UINT64 == 2 ^ 16
U64(x) == x % UINT64

NoPacket == [SrcIP |-> "A", ACK |-> FALSE, FIN |-> FALSE, Options |-> <<>>,
             Seq |-> 0, Ack |-> 0, Len |-> 0, Time |-> 0]

MkPackets(srcs, flagsets, options, seqs, acks, lens, times) ==
    {[SrcIP |-> s, ACK |-> fl[1], FIN |-> fl[2], Options |-> o,
      Seq |-> sq, Ack |-> ak, Len |-> l, Time |-> t] :
        s \in srcs, fl \in flagsets, o \in options,
        sq \in seqs, ak \in acks, l \in lens, t \in times}

----------------------------------------------------------------------------
(* The dispatcher's pure helpers *)

\* GetTimestamps: the first option of type 8, else 0, 0 and an error
RECURSIVE FindTS(_, _)
FindTS(opts, i) ==
    IF i > Len(opts) THEN <<0, 0, FALSE>>
    ELSE IF opts[i].OptionType = 8
         THEN <<opts[i].TSval, opts[i].TSecr, TRUE>>
         ELSE FindTS(opts, i + 1)

GetTimestamps(tcp) == FindTS(tcp.Options, 1)

DstIP(p) == Peer(p.SrcIP)

OurIP(p) == p.SrcIP \in hostIPs

\* src + "-" + dst, with the monitored host's end first
FlowKey(p) ==
    IF OurIP(p) THEN <<p.SrcIP, DstIP(p)>> ELSE <<DstIP(p), p.SrcIP>>

----------------------------------------------------------------------------
(* The flow record (TCPAccounting) *)

\* a timer: whether it is armed, the duration it was last armed with and
\* the seconds left of it
Timer(armed, ttl) == [armed |-> armed, ttl |-> ttl, left |-> ttl]

NewTCPAccounting(key) ==
    [key |-> key, Timed |-> <<>>, Seen |-> {}, SRTT |-> 0, Jitter |-> 0,
     Max |-> 0, Min |-> UINT64 - 1, Last |-> 0, Sampled |-> 0,
     Done |-> FALSE, Alive |-> Timer(FALSE, 0), lock |-> "none"]

\* time.Duration(ttl * int(time.Second)), in seconds; a timer armed with a
\* duration of zero or less fires at once
Seconds(ttl) == IF ttl > 0 THEN ttl ELSE 0

\* flow.SetExpiration(d, key): arm the timer that posts key to Expire
SetExpiration(f, ttl) == [f EXCEPT !.Alive = Timer(TRUE, Seconds(ttl))]

\* flow.Alive.Reset(idle)
ResetAlive(f, ttl) == [f EXCEPT !.Alive = Timer(TRUE, Seconds(ttl))]

\* flow.Timed[t], a Go map read: the zero value when t is absent
TimedAt(f, t) == IF t \in DOMAIN f.Timed THEN f.Timed[t] ELSE 0

\* flow.Timed[t] = v
TimedPut(f, t, v) ==
    [f EXCEPT !.Timed = [k \in DOMAIN f.Timed \cup {t} |->
                            IF k = t THEN v ELSE f.Timed[k]]]

Gain == 8

Abs(x) == IF x < 0 THEN -x ELSE x

\* smoothedRTT += (rtt - smoothedRTT) / gain
CalcSRTT(f, rtt) ==
    [f EXCEPT !.SRTT = IF rtt >= f.SRTT
                       THEN f.SRTT + ((rtt - f.SRTT) \div Gain)
                       ELSE f.SRTT - ((f.SRTT - rtt) \div Gain)]

\* the same smoothing of |rtt - smoothedRTT|
CalcJitter(f, rtt) ==
    LET dev == Abs(rtt - f.SRTT) IN
    [f EXCEPT !.Jitter = IF dev >= f.Jitter
                         THEN f.Jitter + ((dev - f.Jitter) \div Gain)
                         ELSE f.Jitter - ((f.Jitter - dev) \div Gain)]

MaxRTT(f, rtt) == [f EXCEPT !.Max = IF rtt > f.Max THEN rtt ELSE f.Max]
MinRTT(f, rtt) == [f EXCEPT !.Min = IF rtt < f.Min THEN rtt ELSE f.Min]

\* flow.Flush(): reset the sample count
Flush(f) == [f EXCEPT !.Sampled = 0]

----------------------------------------------------------------------------
(* handlePacket, lines 184-227, on the locked record *)

\* FinAck without the test of flow.Done: every FIN+ACK starts the grace period
FinAckRepeated(f, p) ==
    IF ExpTTL > 0 /\ p.ACK /\ p.FIN
    THEN SetExpiration([f EXCEPT !.Done = TRUE], ExpTTL)
    ELSE f

\* lines 184-194: the first FIN+ACK segment starts the grace period
FinAck(f, p) ==
    IF ExpTTL > 0 /\ p.ACK /\ p.FIN /\ ~f.Done
    THEN SetExpiration([f EXCEPT !.Done = TRUE], ExpTTL)
    ELSE f

\* lines 198-205: an outbound data segment seeds a future match
Outbound(f, p) ==
    LET ts == GetTimestamps(p)[1] IN
    TimedPut(f, <<ts, p.Seq>>, p.Time)

\* lines 217-223: one RTT sample
Sample(f, rtt) ==
    LET f1 == CalcSRTT(f, rtt)
        f2 == CalcJitter(f1, rtt)
        f3 == MaxRTT(f2, rtt)
        f4 == MinRTT(f3, rtt)
    IN [f4 EXCEPT !.Last = rtt, !.Sampled = @ + 1]

\* lines 208-226: an inbound segment is matched against the pending sends
Inbound(f, p) ==
    LET tsecr == GetTimestamps(p)[2]
        t == <<tsecr, p.Ack>>
    IN IF TimedAt(f, t) # 0
       THEN LET g == IF p.Ack \notin f.Seen /\ p.ACK
                     THEN Sample(f, U64(p.Time - TimedAt(f, t)))
                     ELSE f
            IN [g EXCEPT !.Seen = @ \cup {p.Ack}]
       ELSE f

\* Correlate without the tests of ourIP: the payload alone decides
CorrelateAnyDirection(f, p) ==
    IF p.Len > 0 THEN Outbound(f, p) ELSE Inbound(f, p)

\* lines 196-227
Correlate(f, p) ==
    IF OurIP(p) /\ p.Len > 0 THEN Outbound(f, p)
    ELSE IF ~OurIP(p) THEN Inbound(f, p)
    ELSE f

----------------------------------------------------------------------------
(* The flow table (FlowMap) *)

\* flows.Add(key, flow): insert unless the key is already populated
Add(m, key, n) ==
    IF key \in DOMAIN m THEN m
    ELSE [k \in DOMAIN m \cup {key} |-> IF k = key THEN n ELSE m[k]]

\* flows.Delete(key)
Delete(m, key) == [k \in DOMAIN m \ {key} |-> m[k]]

----------------------------------------------------------------------------
(* The dispatcher: handlePacket *)

\* lines 153-175: build the key and look the flow up; a new flow's record
\* is made and locked before it is added
Begin(d, p) ==
    /\ pc[d] = "idle"
    /\ budget > 0
    /\ tableLock = "none"
    /\ budget' = budget - 1
    /\ pkt' = [pkt EXCEPT ![d] = p]
    /\ IF FlowKey(p) \in DOMAIN Map
       THEN /\ flow' = [flow EXCEPT ![d] = Map[FlowKey(p)]]
            /\ pc' = [pc EXCEPT ![d] = "lock"]
            /\ recs' = recs
            /\ quiet' = [quiet EXCEPT ![Map[FlowKey(p)]] = 0]
       ELSE /\ flow' = [flow EXCEPT ![d] = Len(recs) + 1]
            /\ pc' = [pc EXCEPT ![d] = "add"]
            /\ recs' = Append(recs,
                   [NewTCPAccounting(FlowKey(p)) EXCEPT !.lock = d])
            /\ quiet' = Append(quiet, 0)
    /\ UNCHANGED <<cfgVars, runVars, Map, Expire, tableLock, repVars>>

\* line 176, flows.Add: take the table's lock
AddLock(d) ==
    /\ pc[d] = "add"
    /\ tableLock = "none"
    /\ tableLock' = d
    /\ pc' = [pc EXCEPT ![d] = "adding"]
    /\ UNCHANGED <<cfgVars, runVars, quiet, Map, Expire, recs, pkt, flow, budget, repVars>>

\* AddInsert without line 177: the new record's timer is never armed
AddInsertUnarmed(d) ==
    /\ pc[d] = "adding"
    /\ Map' = Add(Map, FlowKey(pkt[d]), flow[d])
    /\ tableLock' = "none"
    /\ pc' = [pc EXCEPT ![d] = "body"]
    /\ UNCHANGED <<cfgVars, runVars, quiet, Expire, recs, pkt, flow, budget, repVars>>

\* lines 176-177: insert, release the table's lock, arm the idle timer
AddInsert(d) ==
    /\ pc[d] = "adding"
    /\ Map' = Add(Map, FlowKey(pkt[d]), flow[d])
    /\ tableLock' = "none"
    /\ recs' = [recs EXCEPT ![flow[d]] = SetExpiration(@, IdleTTL)]
    /\ pc' = [pc EXCEPT ![d] = "body"]
    /\ UNCHANGED <<cfgVars, runVars, quiet, Expire, pkt, flow, budget, repVars>>

\* LockFlow of a dispatcher that goes on to flows.Add with the record locked
LockFlowThenAdd(d) ==
    /\ pc[d] = "lock"
    /\ recs[flow[d]].lock = "none"
    /\ recs' = [recs EXCEPT ![flow[d]] =
                   ResetAlive([@ EXCEPT !.lock = d], IdleTTL)]
    /\ pc' = [pc EXCEPT ![d] = "add"]
    /\ UNCHANGED <<cfgVars, runVars, quiet, Map, Expire, tableLock, pkt, flow,
                   budget, repVars>>

\* lines 180-181: lock the record found and reset its timer
LockFlow(d) ==
    /\ pc[d] = "lock"
    /\ recs[flow[d]].lock = "none"
    /\ recs' = [recs EXCEPT ![flow[d]] =
                   ResetAlive([@ EXCEPT !.lock = d], IdleTTL)]
    /\ pc' = [pc EXCEPT ![d] = "body"]
    /\ UNCHANGED <<cfgVars, runVars, quiet, Map, Expire, tableLock, pkt, flow, budget,
                   repVars>>

\* SniffLive lines 250-256, SniffOffline lines 267-273: the select that
\* follows each packet.  When the tomb is dying the loop logs "Done
\* sniffing."; the live loop sets quit and leaves, while the offline loop's
\* break leaves only the select and the range goes on to the next packet.
Select(d) ==
    IF dying[Sniffer]
    THEN /\ doneSniffing' = TRUE
         /\ pc' = [pc EXCEPT ![d] = IF mode = "live" THEN "exited"
                                                     ELSE "idle"]
    ELSE /\ doneSniffing' = doneSniffing
         /\ pc' = [pc EXCEPT ![d] = "idle"]

\* DecodeError in a capture loop that ends when handlePacket returns an error
DecodeErrorFatal(d) ==
    /\ pc[d] = "idle"
    /\ budget > 0
    /\ budget' = budget - 1
    /\ ret' = [ret EXCEPT ![d] = "error"]
    /\ pc' = [pc EXCEPT ![d] = "exited"]
    /\ UNCHANGED <<cfgVars, dying, doneSniffing, quiet, Map, Expire,
                   tableLock, recs, pkt, flow, repVars>>

\* lines 134-138: the packet does not decode; handlePacket logs and returns
\* the error, which the capture loop drops before its select
DecodeError(d) ==
    /\ pc[d] = "idle"
    /\ budget > 0
    /\ budget' = budget - 1
    /\ ret' = [ret EXCEPT ![d] = "error"]
    /\ Select(d)
    /\ UNCHANGED <<cfgVars, dying, quiet, Map, Expire, tableLock, recs, pkt,
                   flow, repVars>>

\* Finish without line 228: handlePacket returns with the record locked
FinishLocked(d) ==
    /\ pc[d] = "body"
    /\ recs' = [recs EXCEPT ![flow[d]] =
                   Correlate(FinAck(@, pkt[d]), pkt[d])]
    /\ ret' = [ret EXCEPT ![d] = "nil"]
    /\ Select(d)
    /\ pkt' = [pkt EXCEPT ![d] = NoPacket]
    /\ flow' = [flow EXCEPT ![d] = 0]
    /\ UNCHANGED <<cfgVars, dying, quiet, Map, Expire, tableLock, budget,
                   repVars>>

\* lines 184-232: the closing transition, the correlation, the unlock and
\* the return; then the capture loop's select
Finish(d) ==
    /\ pc[d] = "body"
    /\ recs' = [recs EXCEPT ![flow[d]] =
                   [Correlate(FinAck(@, pkt[d]), pkt[d]) EXCEPT
                       !.lock = "none"]]
    /\ ret' = [ret EXCEPT ![d] = "nil"]
    /\ Select(d)
    /\ pkt' = [pkt EXCEPT ![d] = NoPacket]
    /\ flow' = [flow EXCEPT ![d] = 0]
    /\ UNCHANGED <<cfgVars, dying, quiet, Map, Expire, tableLock, budget,
                   repVars>>

----------------------------------------------------------------------------
(* The capture loops and the shutdown *)

\* SniffLive lines 245-256: ReadPacketData times out after a second
\* (SetTimeout, line 296) with an error; no packet is handled and the select
\* runs.  While the tomb is alive the select falls to its default and the
\* state is the same, so the step counts only once the tomb is dying.
ReadTimeout(d) ==
    /\ mode = "live"
    /\ pc[d] = "idle"
    /\ dying[Sniffer]
    /\ Select(d)
    /\ UNCHANGED <<cfgVars, dying, ret, quiet, Map, Expire, tableLock, recs,
                   pkt, flow, budget, repVars>>

\* SniffOffline line 263: the capture file has no more packets and the
\* range over packetSource.Packets() ends
EndOfFile(d) ==
    /\ mode = "offline"
    /\ pc[d] = "idle"
    /\ budget = 0
    /\ pc' = [pc EXCEPT ![d] = "exited"]
    /\ UNCHANGED <<cfgVars, runVars, quiet, Map, Expire, tableLock, recs, pkt,
                   flow, budget, repVars>>

\* DatadogSniffer.Stop, line 116: d.t.Kill(nil)
Stop ==
    /\ ~dying[Sniffer]
    /\ dying' = [dying EXCEPT ![Sniffer] = TRUE]
    /\ UNCHANGED <<cfgVars, doneSniffing, ret, quiet, Map, Expire, tableLock,
                   recs, dispVars, repVars>>

\* Sniff lines 378-390, after the capture loop: the flows are read for the
\* log (flows.Get takes the table's lock) and reporter.Stop() kills the
\* reporting loop's tomb
SniffDone(d) ==
    /\ pc[d] = "exited"
    /\ tableLock = "none"
    /\ pc' = [pc EXCEPT ![d] = "stopped"]
    /\ dying' = [dying EXCEPT ![Reporter] = TRUE]
    /\ UNCHANGED <<cfgVars, doneSniffing, ret, quiet, Map, Expire, tableLock,
                   recs, pkt, flow, budget, repVars>>

----------------------------------------------------------------------------
(* The timers *)

\* a record's timer fires: the callback posts the key to Expire
TimerFire(n) ==
    /\ recs[n].Alive.armed
    /\ recs[n].Alive.left = 0
    /\ Len(Expire) < ExpireCap
    /\ Expire' = Append(Expire, recs[n].key)
    /\ recs' = [recs EXCEPT ![n].Alive.armed = FALSE]
    /\ UNCHANGED <<cfgVars, runVars, quiet, Map, tableLock, dispVars, repVars>>

\* the longest time a record is quiet that the properties tell apart
MaxTTL == IF IdleTTL > ExpTTL THEN IdleTTL ELSE ExpTTL

\* one second passes
Tick ==
    /\ recs' = [n \in 1..Len(recs) |->
                  IF recs[n].Alive.armed /\ recs[n].Alive.left > 0
                  THEN [recs[n] EXCEPT !.Alive.left = @ - 1]
                  ELSE recs[n]]
    /\ quiet' = [n \in 1..Len(quiet) |->
                   IF quiet[n] < MaxTTL THEN quiet[n] + 1 ELSE quiet[n]]
    /\ <<recs', quiet'>> # <<recs, quiet>>
    /\ UNCHANGED <<cfgVars, runVars, Map, Expire, tableLock, dispVars, repVars>>

----------------------------------------------------------------------------
(* The reporting loop: Client.Report *)

\* lines 117-119: an expired key is taken from the channel and deleted
RecvExpire ==
    /\ rpc = "select"
    /\ Expire # <<>>
    /\ tableLock = "none"
    /\ Map' = Delete(Map, Head(Expire))
    /\ Expire' = Tail(Expire)
    /\ UNCHANGED <<cfgVars, runVars, quiet, tableLock, recs, dispVars, repVars>>

\* the scan moves on to another key, or to the end of the scan
ScanNext(todo) ==
    IF todo = {}
    THEN /\ rpc' = "unlock"
         /\ scanKey' = <<>>
         /\ scanTodo' = {}
    ELSE \E k \in todo :
            /\ rpc' = "lock"
            /\ scanKey' = k
            /\ scanTodo' = todo \ {k}

\* lines 120-137: the ticker fires; the scan takes the table's lock
ScanBegin ==
    /\ rpc = "select"
    /\ tableLock = "none"
    /\ tableLock' = Reporter
    /\ ScanNext(DOMAIN Map)
    /\ UNCHANGED <<cfgVars, runVars, quiet, Map, Expire, recs, dispVars>>

\* lines 138-139: lock the record of the key the scan is at
ScanLock ==
    /\ rpc = "lock"
    /\ recs[Map[scanKey]].lock = "none"
    /\ recs' = [recs EXCEPT ![Map[scanKey]].lock = Reporter]
    /\ rpc' = "report"
    /\ UNCHANGED <<cfgVars, runVars, quiet, Map, Expire, tableLock, dispVars, scanTodo,
                   scanKey>>

\* lines 140-181: submit the record's values when it has samples, flush it
\* when memory is short or the flush interval has passed, unlock it
ScanReport ==
    /\ rpc = "report"
    /\ \E doFlush \in BOOLEAN :
          recs' = [recs EXCEPT ![Map[scanKey]] =
                      [(IF doFlush THEN Flush(@) ELSE @) EXCEPT
                          !.lock = "none"]]
    /\ ScanNext(scanTodo)
    /\ UNCHANGED <<cfgVars, runVars, quiet, Map, Expire, tableLock, dispVars>>

\* line 183: the scan releases the table's lock
ScanEnd ==
    /\ rpc = "unlock"
    /\ tableLock' = "none"
    /\ rpc' = "select"
    /\ UNCHANGED <<cfgVars, runVars, quiet, Map, Expire, recs, dispVars, scanTodo, scanKey>>

\* lines 184-186: the tomb is dying; the loop ends and Report returns
ReportDying ==
    /\ rpc = "select"
    /\ dying[Reporter]
    /\ rpc' = "done"
    /\ UNCHANGED <<cfgVars, runVars, quiet, Map, Expire, tableLock, recs,
                   dispVars, scanTodo, scanKey>>

----------------------------------------------------------------------------
(* The specification *)

HostSets == SUBSET Endpoints

\* the state after NewDatadogSniffer, before the first packet
Start ==
    /\ Map = <<>>
    /\ Expire = <<>>
    /\ tableLock = "none"
    /\ recs = <<>>
    /\ quiet = <<>>
    /\ pc = [d \in Dispatchers |-> "idle"]
    /\ pkt = [d \in Dispatchers |-> NoPacket]
    /\ flow = [d \in Dispatchers |-> 0]
    /\ rpc = "select"
    /\ scanTodo = {}
    /\ scanKey = <<>>
    /\ dying = [t \in {Sniffer, Reporter} |-> FALSE]
    /\ doneSniffing = FALSE
    /\ ret = [d \in Dispatchers |-> "none"]

\* the reporting loop's steps
Report ==
    \/ RecvExpire
    \/ ScanBegin
    \/ ScanLock
    \/ ScanReport
    \/ ScanEnd

\* the timers' steps
Timers ==
    \/ \E n \in 1..Len(recs) : TimerFire(n)
    \/ Tick

(* Spec: the life of a flow.  The capture loop hands one packet at a time *)
(* to handlePacket; the timers run and the reporting loop scans and       *)
(* deletes.  Segments differ in direction, flags and payload.             *)

LifePackets ==
    MkPackets(Endpoints, {<<TRUE, FALSE>>, <<TRUE, TRUE>>},
              {<<TSOption(1, 1)>>}, {1}, {1}, {0, 1}, {8})

Init ==
    /\ budget = MaxPackets
    /\ hostIPs \in HostSets
    /\ IdleTTL = 2
    /\ ExpTTL = 1
    /\ mode = "live"
    /\ Start

Next ==
    \/ \E p \in LifePackets : Begin(Sniffer, p)
    \/ AddLock(Sniffer)
    \/ AddInsert(Sniffer)
    \/ LockFlow(Sniffer)
    \/ Finish(Sniffer)
    \/ Timers
    \/ Report

Spec == Init /\ [][Next]_vars

(* SpecRTT: the correlation.  All packets arrive within one second, so no *)
(* timer fires; segments differ in direction, ACK flag, timestamp option, *)
(* sequence and acknowledgment number, payload and capture time.          *)

SeqNums == {1, 2}
Times == {0, 8, 24}
OptionLists == {<<>>, <<NopOption, TSOption(1, 1)>>}

RTTPackets ==
    MkPackets(Endpoints, {<<FALSE, FALSE>>, <<TRUE, FALSE>>}, OptionLists,
              SeqNums, SeqNums, {0, 1}, Times)

InitRTT ==
    /\ budget = MaxPackets
    /\ hostIPs \in HostSets
    /\ IdleTTL = 2
    /\ ExpTTL = 1
    /\ mode = "live"
    /\ Start

NextRTT ==
    \/ \E p \in RTTPackets : Begin(Sniffer, p)
    \/ AddLock(Sniffer)
    \/ AddInsert(Sniffer)
    \/ LockFlow(Sniffer)
    \/ Finish(Sniffer)
    \/ ScanBegin
    \/ ScanLock
    \/ ScanReport
    \/ ScanEnd

SpecRTT == InitRTT /\ [][NextRTT]_vars

(* SpecConc: concurrent delivery.  Two dispatchers run handlePacket at    *)
(* the same time on packets of one connection of the monitored host.      *)

ConcPackets ==
    MkPackets(Endpoints, {<<TRUE, FALSE>>}, {<<TSOption(1, 1)>>}, {1}, {1},
              {1}, {8})

InitConc ==
    /\ budget = MaxPackets
    /\ hostIPs = {"A"}
    /\ IdleTTL = 2
    /\ ExpTTL = 1
    /\ mode = "live"
    /\ Start

NextConc ==
    \/ \E d \in Dispatchers : \E p \in ConcPackets : Begin(d, p)
    \/ \E d \in Dispatchers : AddLock(d)
    \/ \E d \in Dispatchers : AddInsert(d)
    \/ \E d \in Dispatchers : LockFlow(d)
    \/ \E d \in Dispatchers : Finish(d)
    \/ Timers
    \/ Report

SpecConc == InitConc /\ [][NextConc]_vars

(* SpecNoTS: the correlation on a connection that never uses the TCP      *)
(* timestamp option.                                                      *)

NoTSPackets ==
    MkPackets(Endpoints, {<<FALSE, FALSE>>, <<TRUE, FALSE>>},
              {<<>>, <<NopOption>>}, SeqNums, SeqNums, {0, 1}, Times)

NextNoTS ==
    \/ \E p \in NoTSPackets : Begin(Sniffer, p)
    \/ AddLock(Sniffer)
    \/ AddInsert(Sniffer)
    \/ LockFlow(Sniffer)
    \/ Finish(Sniffer)
    \/ ScanBegin
    \/ ScanLock
    \/ ScanReport
    \/ ScanEnd

SpecNoTS == InitRTT /\ [][NextNoTS]_vars

(* SpecLive: Spec with the scheduling the Go runtime gives.  Time passes, *)
(* a timer that has run out fires, a goroutine that can run does run, and *)
(* a select that is ready again and again takes each ready case in the    *)
(* end.  Nothing makes the capture deliver another packet.                *)

Fairness ==
    /\ WF_vars(Tick)
    /\ WF_vars(\E n \in 1..Len(recs) : TimerFire(n))
    /\ SF_vars(RecvExpire)
    /\ WF_vars(ScanLock)
    /\ WF_vars(ScanReport)
    /\ WF_vars(ScanEnd)
    /\ WF_vars(AddLock(Sniffer))
    /\ WF_vars(AddInsert(Sniffer))
    /\ WF_vars(LockFlow(Sniffer))
    /\ WF_vars(Finish(Sniffer))

LivePackets ==
    MkPackets(Endpoints, {<<TRUE, FALSE>>, <<TRUE, TRUE>>},
              {<<TSOption(1, 1)>>}, {1}, {1}, {0}, {8})

InitLive ==
    /\ budget = MaxLivePackets
    /\ hostIPs \in HostSets
    /\ IdleTTL = 2
    /\ ExpTTL = 1
    /\ mode = "live"
    /\ Start

NextLive ==
    \/ \E p \in LivePackets : Begin(Sniffer, p)
    \/ AddLock(Sniffer)
    \/ AddInsert(Sniffer)
    \/ LockFlow(Sniffer)
    \/ Finish(Sniffer)
    \/ Timers
    \/ Report

SpecLive == InitLive /\ [][NextLive]_vars /\ Fairness

(* SpecTTL: the life of a flow under every configuration of the two       *)
(* timeouts, zero and negative ones included.                             *)

IdleTTLs == {-1, 0, 2}
ExpTTLs == {-1, 0, 1}

InitTTL ==
    /\ budget = MaxLivePackets
    /\ hostIPs = {"A"}
    /\ IdleTTL \in IdleTTLs
    /\ ExpTTL \in ExpTTLs
    /\ mode = "live"
    /\ Start

SpecTTL == InitTTL /\ [][NextLive]_vars

(* SpecPaths: every path through handlePacket.  Segments differ in        *)
(* direction, flags (none, ACK, FIN+ACK), timestamp option, payload and   *)
(* capture time; the reporting loop scans between them.                   *)

PathPackets ==
    MkPackets(Endpoints, {<<FALSE, FALSE>>, <<TRUE, FALSE>>, <<TRUE, TRUE>>},
              {<<>>, <<TSOption(1, 1)>>}, {1}, {1}, {0, 1}, {8, 24})

InitPaths ==
    /\ budget = MaxPathPackets
    /\ hostIPs \in HostSets
    /\ IdleTTL = 2
    /\ ExpTTL = 1
    /\ mode = "live"
    /\ Start

NextPaths ==
    \/ \E p \in PathPackets : Begin(Sniffer, p)
    \/ AddLock(Sniffer)
    \/ AddInsert(Sniffer)
    \/ LockFlow(Sniffer)
    \/ Finish(Sniffer)
    \/ ScanBegin
    \/ ScanLock
    \/ ScanReport
    \/ ScanEnd

SpecPaths == InitPaths /\ [][NextPaths]_vars

(* SpecRun: the capture loop as Sniff runs it, live or from a file.  Some  *)
(* packets do not decode; Stop may be called at any time; when the loop   *)
(* has ended Sniff stops the reporting loop.                              *)

RunPackets ==
    MkPackets(Endpoints, {<<TRUE, FALSE>>}, {<<TSOption(1, 1)>>}, {1}, {1},
              {0, 1}, {8})

Modes == {"live", "offline"}

InitRun ==
    /\ budget = MaxPackets
    /\ hostIPs = {"A"}
    /\ IdleTTL = 2
    /\ ExpTTL = 1
    /\ mode \in Modes
    /\ Start

NextRun ==
    \/ \E p \in RunPackets : Begin(Sniffer, p)
    \/ DecodeError(Sniffer)
    \/ AddLock(Sniffer)
    \/ AddInsert(Sniffer)
    \/ LockFlow(Sniffer)
    \/ Finish(Sniffer)
    \/ ReadTimeout(Sniffer)
    \/ EndOfFile(Sniffer)
    \/ Stop
    \/ SniffDone(Sniffer)
    \/ Timers
    \/ Report
    \/ ReportDying

SpecRun == InitRun /\ [][NextRun]_vars

----------------------------------------------------------------------------
(* Properties *)

Records == 1..Len(recs)

\* the running statistics of a record
Stats(f) == <<f.SRTT, f.Jitter, f.Last, f.Min, f.Max, f.Sampled>>

\* dispatcher d is about to run lines 184-228 on an inbound segment
AtInbound(d) == pc[d] = "body" /\ ~OurIP(pkt[d])

\* the pending-send key an inbound segment is matched with
AckKey(p) == <<GetTimestamps(p)[2], p.Ack>>

\* C1: once a record is done (the first FIN+ACK was seen and the grace
\* period armed), no later step arms its timer anew or gives it more time:
\* the time left until it fires only goes down.
C1_NoRearmAfterFin ==
    [][\A n \in Records :
          recs[n].Done =>
             /\ recs'[n].Alive.left <= recs[n].Alive.left
             /\ recs'[n].Alive.armed => recs[n].Alive.armed]_vars

\* C2: on a connection none of whose segments carries the timestamp
\* option (SpecNoTS), no record ever counts a sample.
C2_NoSampleWithoutTS == \A n \in Records : recs[n].Sampled = 0

\* C3: an inbound ACK that echoes the timestamp and acknowledges the
\* sequence number of a pending send records exactly one sample the first
\* time its acknowledgment number is seen, and changes no statistic when
\* the number has been seen before.
C3_OneSamplePerAck ==
    [][\A d \in Dispatchers :
          (/\ AtInbound(d)
           /\ pkt[d].ACK
           /\ GetTimestamps(pkt[d])[3]
           /\ AckKey(pkt[d]) \in DOMAIN recs[flow[d]].Timed)
          => IF pkt[d].Ack \in recs[flow[d]].Seen
             THEN Stats(recs'[flow[d]]) = Stats(recs[flow[d]])
             ELSE recs'[flow[d]].Sampled = recs[flow[d]].Sampled + 1]_vars

\* C4: the first inbound ACK that echoes TSval v and acknowledges Seq s of
\* an outbound data segment captured at t0, itself captured at t1 > t0,
\* records one sample with Last = t1 - t0, whatever t0 >= 0 is.
C4_FirstAckSample ==
    [][\A d \in Dispatchers :
          (/\ AtInbound(d)
           /\ pkt[d].ACK
           /\ GetTimestamps(pkt[d])[3]
           /\ AckKey(pkt[d]) \in DOMAIN recs[flow[d]].Timed
           /\ pkt[d].Ack \notin recs[flow[d]].Seen
           /\ recs[flow[d]].Timed[AckKey(pkt[d])] < pkt[d].Time)
          => /\ recs'[flow[d]].Sampled = recs[flow[d]].Sampled + 1
             /\ recs'[flow[d]].Last =
                   pkt[d].Time - recs[flow[d]].Timed[AckKey(pkt[d])]]_vars

\* C5: an insert never finds its key populated: between a dispatcher's
\* failed lookup and its insert no other dispatcher has made and inserted a
\* record for the same connection.
C5_OneRecordPerKey ==
    \A d \in Dispatchers :
        pc[d] = "adding" => FlowKey(pkt[d]) \notin DOMAIN Map

\* C6: a key leaves the table only when the reporting loop takes it from
\* the Expire channel, and never sooner after the last packet the
\* dispatcher observed for its record than the duration the record's timer
\* was last armed with.
C6_RemovedOnlyAfterTTL ==
    [][\A k \in DOMAIN Map :
          k \notin DOMAIN Map' =>
             /\ rpc = "select"
             /\ Expire # <<>>
             /\ Head(Expire) = k
             /\ quiet[Map[k]] >= recs[Map[k]].Alive.ttl
      ]_vars

\* C8: the packets of the connection, in either direction, are mapped to
\* one key: every record made for the connection has the same key.
C8_SameKeyBothWays ==
    \A n, m \in Records : recs[n].key = recs[m].key

\* C9: an inbound ACK that matches a pending send recorded at or after the
\* ACK's own capture time (an RTT of zero or less) changes no statistic.
C9_AnomalyDiscarded ==
    [][\A d \in Dispatchers :
          (/\ AtInbound(d)
           /\ pkt[d].ACK
           /\ TimedAt(recs[flow[d]], AckKey(pkt[d])) # 0
           /\ TimedAt(recs[flow[d]], AckKey(pkt[d])) >= pkt[d].Time)
          => Stats(recs'[flow[d]]) = Stats(recs[flow[d]])]_vars

\* C10: no thread holds the table's lock and a record's lock at once, for
\* holding both means one was taken while the other was held.
C10_LockOrder ==
    \A t \in Dispatchers \cup {Reporter} :
        ~(tableLock = t /\ \E n \in Records : recs[n].lock = t)

Keys == {<<a, Peer(a)>> : a \in Endpoints}

\* a packet of the flow under key k is being handled
InFlight(k) ==
    \E d \in Dispatchers : pc[d] # "idle" /\ FlowKey(pkt[d]) = k

\* C7: a tracked flow for which no further packet is observed is removed
\* in the end: its timer runs out and fires, the key is posted to Expire,
\* the reporting loop deletes it and a lookup of the key finds nothing.
C7_IdleExpiry ==
    \A k \in Keys :
        (k \in DOMAIN Map) ~> (k \notin DOMAIN Map \/ InFlight(k))

\* the idle timer of a record that saw no FIN+ACK has fired and the
\* reporting loop has deleted its key
C7_Witness ==
    \E n \in Records :
        /\ ~recs[n].Done
        /\ recs[n].Alive.armed = FALSE
        /\ recs[n].lock = "none"
        /\ recs[n].key \notin DOMAIN Map
        /\ Expire = <<>>
        /\ pc[Sniffer] = "idle"

----------------------------------------------------------------------------
(* Properties of the record's lifecycle *)

\* C16: done goes from false to true only, and the timer is armed with
\* ExpTTL only in the step that sets done, the handling of the first segment
\* with FIN and ACK; a later FIN+ACK does not arm it with ExpTTL again.
C16_DoneOnce ==
    [][\A n \in Records :
          /\ recs[n].Done => recs'[n].Done
          /\ (/\ recs'[n].Alive # recs[n].Alive
              /\ recs'[n].Alive = Timer(TRUE, Seconds(ExpTTL)))
             => /\ ~recs[n].Done
                /\ recs'[n].Done
                /\ \E d \in Dispatchers :
                      flow[d] = n /\ pkt[d].FIN /\ pkt[d].ACK]_vars

\* a second FIN+ACK segment is handled on a record that is done
C16_Witness ==
    /\ pc[Sniffer] = "body"
    /\ pkt[Sniffer].FIN
    /\ pkt[Sniffer].ACK
    /\ recs[flow[Sniffer]].Done

\* C17: a dispatcher holds a record's lock only while handlePacket runs on
\* that record (from flow.Lock() to flow.Unlock()); once handlePacket has
\* returned, on whatever path, it holds none.
C17_LockReleasedOnReturn ==
    \A d \in Dispatchers : \A n \in Records :
        recs[n].lock = d => pc[d] \in {"add", "adding", "body"} /\ flow[d] = n

\* handlePacket has returned; the record saw a segment with FIN and ACK
\* and no outbound data, and is unlocked
C17_Witness ==
    /\ pc[Sniffer] = "idle"
    /\ ret[Sniffer] = "nil"
    /\ \E n \in Records :
          /\ recs[n].Done
          /\ recs[n].Timed = <<>>
          /\ recs[n].lock = "none"

\* C18: with IdleTTL <= 0 the idle timeout is never armed, so a timer that
\* is armed is the grace period of a record that is done; with ExpTTL <= 0
\* no record is ever done (and so no grace period is armed).
C18_DisabledTTL ==
    \A n \in Records :
        /\ IdleTTL <= 0 =>
              (recs[n].Alive.armed =>
                  recs[n].Done /\ recs[n].Alive.ttl = Seconds(ExpTTL))
        /\ ExpTTL <= 0 => ~recs[n].Done

----------------------------------------------------------------------------
(* Properties of the reporting loop *)

\* the reporting loop holds the lock of the record it is at, has found
\* samples in it (line 140) and computes the values and submits them
\* (lines 141-175)
Submitting ==
    /\ rpc = "report"
    /\ recs[Map[scanKey]].Sampled > 0

\* C11: the table's lock is never held while the values of a record are
\* computed or submitted to the backend: whenever the reporting loop is
\* computing or submitting, the table's lock is free.
C11_TableLockFreeOnSubmit == Submitting => tableLock = "none"

\* C14: a record whose samples the reporting loop has submitted is flushed
\* before the loop releases its lock: when the reporting loop unlocks a
\* record that had samples, the record's sample count is 0.
C14_FlushedAfterReport ==
    [][\A n \in Records :
          (/\ recs[n].lock = Reporter
           /\ recs[n].Sampled > 0
           /\ recs'[n].lock # Reporter)
          => recs'[n].Sampled = 0]_vars

----------------------------------------------------------------------------
(* Properties of the correlation *)

\* C12: a pending send that is matched to a sample is deleted at once: when
\* an inbound segment records a sample, the entry it was matched with is no
\* longer among the record's pending sends.
C12_MatchedSendDeleted ==
    [][\A d \in Dispatchers :
          (/\ AtInbound(d)
           /\ GetTimestamps(pkt[d])[3]
           /\ recs'[flow[d]].Sampled = recs[flow[d]].Sampled + 1)
          => AckKey(pkt[d]) \notin DOMAIN recs'[flow[d]].Timed]_vars

----------------------------------------------------------------------------
(* Properties of the capture loop *)

\* C13: once the capture loop has observed the shutdown signal (it logs
\* "Done sniffing." in the select that follows the packet in progress) it
\* handles no further packet, whether it captures live or from a file.
C13_NoPacketAfterShutdown == [][doneSniffing => budget' = budget]_vars

\* C15: a packet that does not decode is dropped where it is: handlePacket
\* returns the error with no lock taken and the table, the channel and the
\* records as they were, and the capture loop is back at reading the next
\* packet (it leaves only when it was told to stop).
C15_DecodeErrorLocal ==
    [][(/\ pc[Sniffer] = "idle"
        /\ budget' = budget - 1
        /\ pc'[Sniffer] \in {"idle", "exited"})
       => /\ ret'[Sniffer] = "error"
          /\ UNCHANGED <<Map, Expire, tableLock, recs, flow>>
          /\ pc'[Sniffer] = "exited" => dying[Sniffer] /\ mode = "live"]_vars

\* a packet is being handled after the packet before it failed to decode
C15_Witness ==
    /\ ret[Sniffer] = "error"
    /\ pc[Sniffer] = "body"
    /\ recs[flow[Sniffer]].lock = Sniffer

\* C19: an outbound segment leaves the statistics and the acknowledged set
\* of its record as they were and changes the pending sends by at most the
\* one entry <<TSval, Seq>>, and that only when it carries payload; an
\* inbound segment leaves the pending sends as they were.
C19_DirectionFrame ==
    [][\A d \in Dispatchers :
          pc[d] = "body" =>
             LET f == recs[flow[d]]
                 g == recs'[flow[d]]
                 p == pkt[d]
             IN IF OurIP(p)
                THEN /\ Stats(g) = Stats(f)
                     /\ g.Seen = f.Seen
                     /\ DOMAIN f.Timed \subseteq DOMAIN g.Timed
                     /\ \A k \in DOMAIN g.Timed :
                           \/ k \in DOMAIN f.Timed /\ g.Timed[k] = f.Timed[k]
                           \/ p.Len > 0 /\ k = <<GetTimestamps(p)[1], p.Seq>>
                ELSE g.Timed = f.Timed]_vars

\* a send captured at 8 was matched by an ACK captured at 24 (Last = 16),
\* and a later outbound data segment has overwritten its entry with 24:
\* the sample stands as it was
C19_Witness ==
    \E n \in Records :
        /\ recs[n].lock = "none"
        /\ recs[n].Sampled = 1
        /\ recs[n].Last = 16
        /\ \E k \in DOMAIN recs[n].Timed :
              DOMAIN recs[n].Timed = {k} /\ recs[n].Timed[k] = 24

----------------------------------------------------------------------------
(* Deadlock freedom *)

\* a process waits for the table's lock, for a record's lock or for room
\* in the Expire channel
Waiting ==
    \/ \E d \in Dispatchers : pc[d] \in {"add", "lock"}
    \/ rpc = "lock"
    \/ \E n \in Records : recs[n].Alive.armed /\ recs[n].Alive.left = 0

\* a step of a running handlePacket, of the reporting loop past its select
\* or on an expired key, or of a timer that has run out
Progress ==
    \/ \E d \in Dispatchers :
          AddLock(d) \/ AddInsert(d) \/ LockFlow(d) \/ Finish(d)
    \/ RecvExpire
    \/ ScanLock
    \/ ScanReport
    \/ ScanEnd
    \/ \E n \in Records : TimerFire(n)

\* C20: no deadlock: in every state in which some process waits for a lock
\* or for the Expire channel, some process can take its next step without
\* a new packet, a new tick of the ticker or the passing of time.
C20_NoDeadlock == Waiting => ENABLED Progress

\* one dispatcher holds its new record's lock and waits for the table's
\* lock to insert it, while the reporting loop holds the table's lock and
\* waits for a record that the other dispatcher has locked
C20_Witness ==
    \E d, e \in Dispatchers :
        /\ d # e
        /\ pc[d] = "add"
        /\ recs[flow[d]].lock = d
        /\ tableLock = Reporter
        /\ rpc = "lock"
        /\ recs[Map[scanKey]].lock = e

====
